---------------------------- MODULE Spec2Model ----------------------------
(***************************************************************************)
(* Image storage and annotation service.                                   *)
(*                                                                         *)
(* The repository holds two entry points that serve the same routes:       *)
(*   - src/unnamed/part_000 : the MySQL-backed service ("db")              *)
(*   - src/src/index.js     : the upload-directory service ("fs")          *)
(* A deployment runs one of them; the variable impl says which.            *)
(*                                                                         *)
(* Two specifications are given:                                           *)
(*   RenderSpec : the overlay construction of the annotate handler         *)
(*                (request body -> svg parts), statement by statement,     *)
(*                over a bounded set of request bodies and metadata;       *)
(*   Spec       : the request pipeline (upload, replace, annotate) with    *)
(*                concurrent requests interleaving at their awaits.        *)
(***************************************************************************)
EXTENDS Integers, Sequences, FiniteSets, TLC

VARIABLES
    impl,     \* "db" (part_000) or "fs" (index.js)
    r,        \* RenderSpec: the locals of one overlay construction
    images,   \* db: the rows of table images, id -> row
    autoInc,  \* db: the table's AUTO_INCREMENT counter
    files,    \* fs: the upload directory, file name -> file content
    conn,     \* the requests in flight, slot -> request and handler locals
    issued    \* how many requests have been received

vars == <<impl, r, images, autoInc, files, conn, issued>>

Impls == {"db", "fs"}

---------------------------------------------------------------------------
(* Bounds of the model.                                                    *)

MaxEntries == 4   \* RenderSpec: most strokes and texts, together, in a request body
MaxRequests == 3  \* Spec: requests received in a run
MaxConns == 2     \* Spec: requests in flight at once

---------------------------------------------------------------------------
(* JSON / JavaScript values.  Every value is a tagged record; strings are  *)
(* sequences of characters (one-character TLA+ strings, or longer tokens   *)
(* standing for a run of ordinary characters).                             *)

Undefined == [t |-> "undefined"]
Null == [t |-> "null"]
Num(n) == [t |-> "number", n |-> n]
Str(s) == [t |-> "string", s |-> s]
Arr(a) == [t |-> "array", a |-> a]
Obj(f) == [t |-> "object", f |-> f]

\* v == null || v === undefined
Nullish(v) == v.t \in {"undefined", "null"}

\* ToBoolean(v): what `!v` and `v || d` test
Truthy(v) ==
    CASE v.t = "undefined" -> FALSE
      [] v.t = "null" -> FALSE
      [] v.t = "number" -> v.n # 0
      [] v.t = "string" -> v.s # <<>>
      [] OTHER -> TRUE

\* v.name for a non-nullish v (a property read of null or undefined throws)
Get(v, name) ==
    CASE v.t = "object" -> IF name \in DOMAIN v.f THEN v.f[name] ELSE Undefined
      [] v.t = "array" /\ name = "length" -> Num(Len(v.a))
      [] v.t = "string" /\ name = "length" -> Num(Len(v.s))
      [] OTHER -> Undefined

\* a || d
OrElse(a, d) == IF Truthy(a) THEN a ELSE d

\* a ?? d
Coalesce(a, d) == IF Nullish(a) THEN d ELSE a

Digit == <<"0", "1", "2", "3", "4", "5", "6", "7", "8", "9">>

RECURSIVE NumToStr(_)
\* String(n) for a non-negative integer n
NumToStr(n) ==
    IF n < 10 THEN <<Digit[n + 1]>>
    ELSE NumToStr(n \div 10) \o <<Digit[(n % 10) + 1]>>

\* `${v}` : the string a template literal puts in for v
ToStr(v) ==
    CASE v.t = "undefined" -> <<"undefined">>
      [] v.t = "null" -> <<"null">>
      [] v.t = "number" -> NumToStr(v.n)
      [] v.t = "string" -> v.s
      [] v.t = "array" -> <<"[array]">>
      [] OTHER -> <<"[object Object]">>

\* v < 2, for the values a .length read yields here (a number or undefined;
\* undefined converts to NaN and every comparison with NaN is false)
LessThan2(v) == v.t = "number" /\ v.n < 2

RECURSIVE Escape(_)
\* String(s).replace(/&/g, "&amp;").replace(/</g, "&lt;")
Escape(s) ==
    IF s = <<>> THEN <<>>
    ELSE (CASE Head(s) = "&" -> <<"&", "a", "m", "p", ";">>
            [] Head(s) = "<" -> <<"&", "l", "t", ";">>
            [] OTHER -> <<Head(s)>>) \o Escape(Tail(s))

---------------------------------------------------------------------------
(* The overlay: the array `svg` of document parts, joined at the end.      *)
(* A part is kept as the record of the values its template literal         *)
(* interpolates, each already converted to its string.                     *)

DefaultWidth == 1024
DefaultHeight == 768
DefaultStrokeWidth == 4
DefaultTextX == 20
DefaultTextY == 20
DefaultFontSize == 24
DefaultStrokeColor == <<"#ff0000">>
DefaultTextColor == <<"#00ff00">>

\* meta.width || 1024
CanvasWidth(meta) == OrElse(meta.width, Num(DefaultWidth))

\* Faulty variant: the height falls back to the width's default
CanvasHeightWrongDefault(meta) == OrElse(meta.height, Num(DefaultWidth))

\* meta.height || 768
CanvasHeight(meta) == OrElse(meta.height, Num(DefaultHeight))

\* `<svg width=".." height=".." viewBox="0 0 .. .." xmlns="..">`
SvgOpen(width, height) ==
    [tag |-> "svg", width |-> ToStr(width), height |-> ToStr(height),
     viewBox |-> <<"0", "0">> \o ToStr(width) \o ToStr(height)]

SvgClose == [tag |-> "/svg"]

\* Array.isArray(v) ? v : []     (part_000)
ArrayOrEmpty(v) == IF v.t = "array" THEN v ELSE Arr(<<>>)

\* const { strokes = [], texts = [] } = req.body || {}     (index.js):
\* the default applies to a missing (undefined) field only
DefaultEmpty(v) == IF v.t = "undefined" THEN Arr(<<>>) ELSE v

\* the body's field as the handler's local
BodyList(i, v) == IF i = "db" THEN ArrayOrEmpty(v) ELSE DefaultEmpty(v)

\* for (const x of v): arrays and strings are iterable, the other JSON
\* values are not and the loop throws a TypeError
Iterable(v) == v.t \in {"array", "string"}

\* the sequence a for-of loop over v visits
Items(v) ==
    IF v.t = "array" THEN v.a
    ELSE [k \in 1..Len(v.s) |-> Str(<<v.s[k]>>)]

\* stroke?.points (part_000) / stroke.points (index.js)
StrokePoints(i, stroke) ==
    IF Nullish(stroke)
    THEN (IF i = "db" THEN [ok |-> TRUE, v |-> Undefined] ELSE [ok |-> FALSE])
    ELSE [ok |-> TRUE, v |-> Get(stroke, "points")]

\* (p, i) => (i === 0 ? `${p.x} ${p.y}` : `L ${p.x} ${p.y}`)
Segment(p, k) ==
    (IF k = 1 THEN <<>> ELSE <<"L", " ">>) \o ToStr(Get(p, "x")) \o <<" ">> \o ToStr(Get(p, "y"))

RECURSIVE JoinSegments(_, _)
\* "M " + points.map(...).join(" ")  from the k-th point on
JoinSegments(pts, k) ==
    IF k > Len(pts) THEN <<>>
    ELSE (IF k = 1 THEN <<"M", " ">> ELSE <<" ">>) \o Segment(pts[k], k) \o JoinSegments(pts, k + 1)

\* `<path d=".." fill="none" stroke=".." stroke-width=".." ... />`
PathElement(stroke) ==
    [tag |-> "path",
     d |-> JoinSegments(Get(stroke, "points").a, 1),
     stroke |-> ToStr(OrElse(Get(stroke, "color"), Str(DefaultStrokeColor))),
     width |-> ToStr(OrElse(Get(stroke, "width"), Num(DefaultStrokeWidth)))]

\* `<text x=".." y=".." fill=".." font-size=".." ...>escaped</text>`
TextElement(t) ==
    [tag |-> "text",
     x |-> ToStr(Coalesce(Get(t, "x"), Num(DefaultTextX))),
     y |-> ToStr(Coalesce(Get(t, "y"), Num(DefaultTextY))),
     fill |-> ToStr(OrElse(Get(t, "color"), Str(DefaultTextColor))),
     size |-> ToStr(OrElse(Get(t, "fontSize"), Num(DefaultFontSize))),
     body |-> Escape(ToStr(Get(t, "text")))]

\* Faulty variant: the stroke loop skips only strokes with no point at all
SkipStrokeOffByOne(pts) ==
    ~Truthy(pts) \/ (Get(pts, "length").t = "number" /\ Get(pts, "length").n < 1)

\* the `continue` test of the stroke loop, given the points read
SkipStroke(pts) == ~Truthy(pts) \/ LessThan2(Get(pts, "length"))

\* points.map(cb) runs: points is an array and no point is null or
\* undefined (cb reads p.x); otherwise a TypeError is thrown
MapRuns(pts) ==
    /\ pts.t = "array"
    /\ \A k \in 1..Len(pts.a) : ~Nullish(pts.a[k])

\* One iteration of the stroke loop on the array svg:
\* [ok |-> FALSE] when it throws, else the array after the iteration.
StrokeIter(i, svg, stroke) ==
    LET pr == StrokePoints(i, stroke) IN
    IF ~pr.ok THEN [ok |-> FALSE, svg |-> svg]
    ELSE IF SkipStroke(pr.v) THEN [ok |-> TRUE, svg |-> svg]
    ELSE IF ~MapRuns(pr.v) THEN [ok |-> FALSE, svg |-> svg]
    ELSE [ok |-> TRUE, svg |-> Append(svg, PathElement(stroke))]

\* t?.text (part_000) / t.text (index.js)
TextOf(i, t) ==
    IF Nullish(t)
    THEN (IF i = "db" THEN [ok |-> TRUE, v |-> Undefined] ELSE [ok |-> FALSE])
    ELSE [ok |-> TRUE, v |-> Get(t, "text")]

\* Faulty variant: a text is put right after the opening tag, below the strokes
TextIterUnshift(i, svg, t) ==
    LET tr == TextOf(i, t) IN
    IF ~tr.ok THEN [ok |-> FALSE, svg |-> svg]
    ELSE IF ~Truthy(tr.v) THEN [ok |-> TRUE, svg |-> svg]
    ELSE [ok |-> TRUE, svg |-> <<Head(svg), TextElement(t)>> \o Tail(svg)]

\* One iteration of the text loop on the array svg.
TextIter(i, svg, t) ==
    LET tr == TextOf(i, t) IN
    IF ~tr.ok THEN [ok |-> FALSE, svg |-> svg]
    ELSE IF ~Truthy(tr.v) THEN [ok |-> TRUE, svg |-> svg]
    ELSE [ok |-> TRUE, svg |-> Append(svg, TextElement(t))]

RECURSIVE StrokeLoop(_, _, _, _)
\* for (const stroke of strokes) { ... }  from the k-th item on
StrokeLoop(i, svg, items, k) ==
    IF k > Len(items) THEN [ok |-> TRUE, svg |-> svg]
    ELSE LET s == StrokeIter(i, svg, items[k]) IN
         IF s.ok THEN StrokeLoop(i, s.svg, items, k + 1) ELSE s

RECURSIVE TextLoop(_, _, _, _)
\* for (const t of texts) { ... }  from the k-th item on
TextLoop(i, svg, items, k) ==
    IF k > Len(items) THEN [ok |-> TRUE, svg |-> svg]
    ELSE LET s == TextIter(i, svg, items[k]) IN
         IF s.ok THEN TextLoop(i, s.svg, items, k + 1) ELSE s

\* The whole overlay construction of the annotate handler, from the parsed
\* body and the metadata to the array svg (ok = FALSE: a TypeError was
\* thrown on the way and the handler's catch answers).
BuildOverlay(i, body, meta) ==
    LET strokes == BodyList(i, Get(body, "strokes"))
        texts == BodyList(i, Get(body, "texts"))
        open == <<SvgOpen(CanvasWidth(meta), CanvasHeight(meta))>>
    IN  IF ~Iterable(strokes) THEN [ok |-> FALSE, svg |-> open]
        ELSE LET a == StrokeLoop(i, open, Items(strokes), 1) IN
             IF ~a.ok THEN a
             ELSE IF ~Iterable(texts) THEN [ok |-> FALSE, svg |-> a.svg]
             ELSE LET b == TextLoop(i, a.svg, Items(texts), 1) IN
                  IF ~b.ok THEN b
                  ELSE [ok |-> TRUE, svg |-> Append(b.svg, SvgClose)]

---------------------------------------------------------------------------
(* Request bodies and metadata drawn in RenderSpec.                        *)

Pt(x, y) == Obj([x |-> Num(x), y |-> Num(y)])

StrokeNull == Null
StrokeNoPoints == Obj([color |-> Str(<<"blue">>)])
StrokeOnePoint == Obj([points |-> Arr(<<Pt(1, 2)>>)])
StrokePlain == Obj([points |-> Arr(<<Pt(0, 0), Pt(10, 5)>>)])
StrokeStyled ==
    Obj([points |-> Arr(<<Pt(3, 4), Pt(5, 6), Pt(7, 8)>>),
         color |-> Str(<<"blue">>), width |-> Num(2)])
StrokeNullPoint == Obj([points |-> Arr(<<Pt(0, 0), Null>>)])

StrokeVals ==
    {StrokeNull, StrokeNoPoints, StrokeOnePoint, StrokePlain, StrokeStyled,
     StrokeNullPoint}

TextNull == Null
TextMissing == Obj([x |-> Num(1), y |-> Num(2)])
TextEmpty == Obj([text |-> Str(<<>>), color |-> Str(<<"blue">>)])
TextPlain == Obj([text |-> Str(<<"A", "&", "B", "<", "C">>)])
TextStyled ==
    Obj([text |-> Str(<<"h", "i">>), x |-> Num(0), y |-> Null,
         color |-> Str(<<"blue">>), fontSize |-> Num(12)])

TextVals == {TextNull, TextMissing, TextEmpty, TextPlain, TextStyled}

\* values of body.strokes / body.texts that are not arrays
NonArrays == {Undefined, Null, Num(5), Str(<<"a", "b">>)}

SeqsUpTo(S, n) == UNION {[1..k -> S] : k \in 0..n}

\* the parsed JSON bodies: at most MaxEntries strokes and texts together
Bodies ==
    {Obj([strokes |-> s, texts |-> t]) :
        <<s, t>> \in
            {<<Arr(a), Arr(b)>> :
                <<a, b>> \in {x \in SeqsUpTo(StrokeVals, MaxEntries) \X
                                     SeqsUpTo(TextVals, MaxEntries) :
                                  Len(x[1]) + Len(x[2]) <= MaxEntries}}
            \cup {<<n, Arr(b)>> : n \in NonArrays, b \in SeqsUpTo(TextVals, 1)}
            \cup {<<Arr(a), n>> : n \in NonArrays, a \in SeqsUpTo(StrokeVals, 1)}}

\* what sharp's metadata() resolves to: each dimension present or not
Metas ==
    {[width |-> w, height |-> h] :
        w \in {Undefined, Num(100)}, h \in {Undefined, Num(50)}}

---------------------------------------------------------------------------
(* RenderSpec: the overlay construction, one statement or loop iteration   *)
(* per step.                                                               *)

ROff == [pc |-> "off"]

RInit ==
    /\ impl \in Impls
    /\ r \in {[pc |-> "start", body |-> b, meta |-> m, strokes |-> Undefined,
                texts |-> Undefined, canvas |-> <<>>, i |-> 0, svg |-> <<>>] :
                b \in Bodies, m \in Metas}
    /\ images = <<>>
    /\ autoInc = 1
    /\ files = <<>>
    /\ conn = <<>>
    /\ issued = 0

\* the locals strokes, texts, width, height and the array svg with its
\* opening tag
RBegin ==
    /\ r.pc = "start"
    /\ r' = [r EXCEPT !.pc = "strokes",
                      !.strokes = BodyList(impl, Get(r.body, "strokes")),
                      !.texts = BodyList(impl, Get(r.body, "texts")),
                      !.canvas = <<CanvasWidth(r.meta), CanvasHeight(r.meta)>>,
                      !.svg = <<SvgOpen(CanvasWidth(r.meta), CanvasHeight(r.meta))>>,
                      !.i = 1]
    /\ UNCHANGED <<impl, images, autoInc, files, conn, issued>>

\* the stroke loop: its start, one iteration, or its end
RStroke ==
    /\ r.pc = "strokes"
    /\ r' = IF ~Iterable(r.strokes) THEN [r EXCEPT !.pc = "threw"]
            ELSE IF r.i > Len(Items(r.strokes)) THEN [r EXCEPT !.pc = "texts", !.i = 1]
            ELSE LET s == StrokeIter(impl, r.svg, Items(r.strokes)[r.i]) IN
                 IF s.ok THEN [r EXCEPT !.svg = s.svg, !.i = r.i + 1]
                 ELSE [r EXCEPT !.pc = "threw"]
    /\ UNCHANGED <<impl, images, autoInc, files, conn, issued>>

\* the text loop: its start, one iteration, or its end with the closing tag
RText ==
    /\ r.pc = "texts"
    /\ r' = IF ~Iterable(r.texts) THEN [r EXCEPT !.pc = "threw"]
            ELSE IF r.i > Len(Items(r.texts))
                 THEN [r EXCEPT !.pc = "done", !.svg = Append(r.svg, SvgClose)]
            ELSE LET s == TextIter(impl, r.svg, Items(r.texts)[r.i]) IN
                 IF s.ok THEN [r EXCEPT !.svg = s.svg, !.i = r.i + 1]
                 ELSE [r EXCEPT !.pc = "threw"]
    /\ UNCHANGED <<impl, images, autoInc, files, conn, issued>>

RNext == RBegin \/ RStroke \/ RText

RenderSpec == RInit /\ [][RNext]_vars

\* the stepwise construction and BuildOverlay agree
RenderAgrees ==
    /\ r.pc = "done" => BuildOverlay(impl, r.body, r.meta) = [ok |-> TRUE, svg |-> r.svg]
    /\ r.pc = "threw" => ~BuildOverlay(impl, r.body, r.meta).ok

---------------------------------------------------------------------------
(* Image bytes, rows and files.                                            *)
(* A buffer is [fmt, by, pix, layers]: its encoding, who produced the      *)
(* bytes (the client, or sharp's encoder), the picture it was made from    *)
(* and the overlays composited onto it, in order.                          *)

\* sharp can decode the buffer
Decodable(buf) == buf.fmt \in {"png", "jpeg"}

\* Faulty variant: the bytes are stored as they came, without the re-encode
PngEncodePassThrough(buf) == buf

\* sharp(buf).png().toBuffer()
PngEncode(buf) == [fmt |-> "png", by |-> "sharp", pix |-> buf.pix, layers |-> buf.layers]

\* sharp(data).composite([{ input: svgBuffer }]).png().toBuffer()
Composite(data, svg) ==
    [fmt |-> "png", by |-> "sharp", pix |-> data.pix, layers |-> Append(data.layers, svg)]

\* the multipart files a client sends (req.file), and none
NoFile == [t |-> "nofile"]
FileA ==
    [name |-> <<"a", ".jpg">>,
     buf |-> [fmt |-> "jpeg", by |-> "client", pix |-> "A", layers |-> <<>>]]
FileB ==
    [name |-> <<>>,
     buf |-> [fmt |-> "png", by |-> "client", pix |-> "B", layers |-> <<>>]]
FileBad ==
    [name |-> <<"c", ".png">>,
     buf |-> [fmt |-> "bad", by |-> "client", pix |-> "C", layers |-> <<>>]]
UploadFiles == {FileA, FileB, FileBad, NoFile}

\* the route parameter :id of the db service, as sent
IdStrings == {<<"1">>, <<"0", "2">>, <<"1", ".", "5">>, <<"a", "b", "c">>}

\* the JSON bodies of the annotate requests of Spec
GoodBody == Obj([strokes |-> Arr(<<StrokePlain>>), texts |-> Arr(<<TextPlain>>)])
BadBody == Obj([strokes |-> Arr(<<StrokeNullPoint>>)])
PipelineBodies == {GoodBody, BadBody}

\* what metadata() resolves to in Spec: both dimensions, or neither
PipelineMetas ==
    {[width |-> Num(100), height |-> Num(50)], [width |-> Undefined, height |-> Undefined]}

Digits == {Digit[k] : k \in 1..10}

DigitVal(c) == CHOOSE k \in 0..9 : Digit[k + 1] = c

RECURSIVE DecVal(_)
\* the value of a string of decimal digits
DecVal(s) ==
    IF s = <<>> THEN 0
    ELSE DecVal(SubSeq(s, 1, Len(s) - 1)) * 10 + DigitVal(s[Len(s)])

IsDigits(s) == \A k \in 1..Len(s) : s[k] \in Digits

\* Number(str) for the parameter strings of the model: a run of digits is
\* its decimal value (leading zeros allowed), digits "." digits a number
\* that is an integer only when the fraction is zero, anything else NaN
NumberOf(str) ==
    IF str # <<>> /\ IsDigits(str)
    THEN [t |-> "number", kind |-> "int", n |-> DecVal(str)]
    ELSE IF \E k \in 1..Len(str) :
                /\ str[k] = "."
                /\ Len(str) > 1
                /\ IsDigits(SubSeq(str, 1, k - 1))
                /\ IsDigits(SubSeq(str, k + 1, Len(str)))
    THEN LET k == CHOOSE j \in 1..Len(str) : str[j] = "."
             whole == DecVal(SubSeq(str, 1, k - 1))
             frac == DecVal(SubSeq(str, k + 1, Len(str)))
         IN  [t |-> "number", kind |-> IF frac = 0 THEN "int" ELSE "frac", n |-> whole]
    ELSE [t |-> "number", kind |-> "nan", n |-> 0]

\* Faulty variant: every converted id passes the check
IsFiniteLax(v) == v.kind \in {"int", "frac", "nan"}

\* Number.isFinite(v)
IsFinite(v) == v.kind \in {"int", "frac"}

\* the rows SELECT ... WHERE id = ? returns: the row with that integer id
RowFound(rows, id) == id.kind = "int" /\ id.n \in DOMAIN rows

Row(ct, name, data, parent) ==
    [content_type |-> ct, original_name |-> name, data |-> data,
     original_image_id |-> parent]

\* INSERT INTO images (...) VALUES (...): a new row under the next id
InsertRow(rows, id, row) ==
    [k \in DOMAIN rows \cup {id} |-> IF k = id THEN row ELSE rows[k]]

\* Faulty variant: the UPDATE also clears the parent link
UpdateRowClearsParent(rows, id, ct, data, name) ==
    IF id.kind = "int" /\ id.n \in DOMAIN rows
    THEN [rows EXCEPT ![id.n] = [@ EXCEPT !.content_type = ct, !.data = data,
                                          !.original_name = name,
                                          !.original_image_id = Null]]
    ELSE rows

\* UPDATE images SET content_type = ?, data = ?, original_name = ? WHERE id = ?
UpdateRow(rows, id, ct, data, name) ==
    IF RowFound(rows, id)
    THEN [rows EXCEPT ![id.n] = [@ EXCEPT !.content_type = ct, !.data = data,
                                          !.original_name = name]]
    ELSE rows

PngType == <<"image/png">>

\* `${API}/${id}/raw`
RawUrl(id) == <<"/api/images/">> \o NumToStr(id) \o <<"/raw">>

\* `/images/${name}/raw`
FsRawUrl(name) == <<"/images/">> \o name \o <<"/raw">>

---------------------------------------------------------------------------
(* Requests in flight.                                                     *)

Slots == 1..MaxConns

Idle == [op |-> "idle"]

NewReq(op, idStr, file, body) ==
    [op |-> op, pc |-> "new", idStr |-> idStr, id |-> Undefined, file |-> file,
     body |-> body, original |-> Undefined, svg |-> <<>>, buf |-> Undefined,
     resp |-> <<>>]

\* return res.status(status).json(body): the response is sent and the
\* handler's locals and the request's payload go out of scope (the route
\* parameter is kept for the record)
Respond(c, status, body) ==
    [c EXCEPT !.pc = "done", !.resp = Append(c.resp, [status |-> status, body |-> body]),
              !.file = NoFile, !.body = Undefined, !.original = Undefined,
              !.svg = <<>>, !.buf = Undefined]

Msg(m) == [message |-> m]

Init ==
    /\ impl \in Impls
    /\ r = ROff
    /\ images = <<>>
    /\ autoInc = 1
    /\ files = <<>>
    /\ conn = [s \in Slots |-> Idle]
    /\ issued = 0

\* a request is taken by the first free slot (the slots are interchangeable)
CanReceive(s) ==
    /\ conn[s] = Idle
    /\ \A t \in Slots : t < s => conn[t] # Idle
    /\ issued < MaxRequests

At(s, op, pc) == conn[s].op = op /\ conn[s].pc = pc

---------------------------------------------------------------------------
(* db: POST /api/images                                                    *)

DbUploadArrive(s) ==
    /\ impl = "db" /\ CanReceive(s)
    /\ \E f \in UploadFiles :
        LET c == NewReq("upload", <<>>, f, Undefined) IN
        conn' = [conn EXCEPT ![s] =
                    IF f = NoFile THEN Respond(c, 400, Msg("No file uploaded"))
                    ELSE [c EXCEPT !.pc = "encode"]]
    /\ issued' = issued + 1
    /\ UNCHANGED <<impl, r, images, autoInc, files>>

\* await sharp(req.file.buffer).png().toBuffer()
DbUploadEncoded(s) ==
    /\ At(s, "upload", "encode") /\ impl = "db"
    /\ \E ok \in BOOLEAN :
        conn' = [conn EXCEPT ![s] =
                    IF ok /\ Decodable(conn[s].file.buf)
                    THEN [conn[s] EXCEPT !.pc = "insert", !.buf = PngEncode(conn[s].file.buf)]
                    ELSE Respond(conn[s], 500, Msg("Failed to upload image"))]
    /\ UNCHANGED <<impl, r, images, autoInc, files, issued>>

\* await pool.execute(INSERT ...), then the 201
DbUploadInserted(s) ==
    /\ At(s, "upload", "insert") /\ impl = "db"
    /\ \E ok \in BOOLEAN :
        IF ok
        THEN /\ images' = InsertRow(images, autoInc,
                            Row(PngType, OrElse(Str(conn[s].file.name), Null),
                                conn[s].buf, Null))
             /\ autoInc' = autoInc + 1
             /\ conn' = [conn EXCEPT ![s] =
                            Respond(conn[s], 201, [id |-> autoInc, url |-> RawUrl(autoInc)])]
        ELSE /\ conn' = [conn EXCEPT ![s] = Respond(conn[s], 500, Msg("Failed to upload image"))]
             /\ UNCHANGED <<images, autoInc>>
    /\ UNCHANGED <<impl, r, files, issued>>

---------------------------------------------------------------------------
(* db: PUT /api/images/:id                                                 *)

DbReplaceArrive(s) ==
    /\ impl = "db" /\ CanReceive(s)
    /\ \E str \in IdStrings, f \in UploadFiles :
        LET c == NewReq("replace", str, f, Undefined)
            id == NumberOf(str)
        IN  conn' = [conn EXCEPT ![s] =
                        IF ~IsFinite(id) THEN Respond(c, 400, Msg("Invalid image id"))
                        ELSE IF f = NoFile THEN Respond(c, 400, Msg("No file uploaded"))
                        ELSE [c EXCEPT !.pc = "select", !.id = id]]
    /\ issued' = issued + 1
    /\ UNCHANGED <<impl, r, images, autoInc, files>>

\* await pool.execute(SELECT id FROM images WHERE id = ?)
DbReplaceSelected(s) ==
    /\ At(s, "replace", "select") /\ impl = "db"
    /\ \E ok \in BOOLEAN :
        conn' = [conn EXCEPT ![s] =
                    IF ~ok THEN Respond(conn[s], 500, Msg("Failed to replace image"))
                    ELSE IF ~RowFound(images, conn[s].id) THEN Respond(conn[s], 404, Msg("Image not found"))
                    ELSE [conn[s] EXCEPT !.pc = "encode"]]
    /\ UNCHANGED <<impl, r, images, autoInc, files, issued>>

\* await sharp(req.file.buffer).png().toBuffer()
DbReplaceEncoded(s) ==
    /\ At(s, "replace", "encode") /\ impl = "db"
    /\ \E ok \in BOOLEAN :
        conn' = [conn EXCEPT ![s] =
                    IF ok /\ Decodable(conn[s].file.buf)
                    THEN [conn[s] EXCEPT !.pc = "update", !.buf = PngEncode(conn[s].file.buf)]
                    ELSE Respond(conn[s], 500, Msg("Failed to replace image"))]
    /\ UNCHANGED <<impl, r, images, autoInc, files, issued>>

\* the row after the handler's UPDATE
ReplaceRow(rows, c) ==
    UpdateRow(rows, c.id, PngType, c.buf,
              OrElse(Str(c.file.name), Str(<<"edited.png">>)))

\* await pool.execute(UPDATE ...), then the 200
DbReplaceUpdated(s) ==
    /\ At(s, "replace", "update") /\ impl = "db"
    /\ \E ok \in BOOLEAN :
        IF ok
        THEN /\ images' = ReplaceRow(images, conn[s])
             /\ conn' = [conn EXCEPT ![s] =
                            Respond(conn[s], 200, [id |-> conn[s].id.n, url |-> RawUrl(conn[s].id.n),
                                             updated |-> TRUE])]
        ELSE /\ conn' = [conn EXCEPT ![s] = Respond(conn[s], 500, Msg("Failed to replace image"))]
             /\ UNCHANGED images
    /\ UNCHANGED <<impl, r, autoInc, files, issued>>

---------------------------------------------------------------------------
(* db: POST /api/images/:id/annotate                                       *)

DbAnnotateArrive(s) ==
    /\ impl = "db" /\ CanReceive(s)
    /\ \E str \in IdStrings, b \in PipelineBodies :
        LET c == NewReq("annotate", str, NoFile, b)
            id == NumberOf(str)
        IN  conn' = [conn EXCEPT ![s] =
                        IF ~IsFinite(id) THEN Respond(c, 400, Msg("Invalid image id"))
                        ELSE [c EXCEPT !.pc = "select", !.id = id]]
    /\ issued' = issued + 1
    /\ UNCHANGED <<impl, r, images, autoInc, files>>

\* Faulty variant: a missing source is answered as a server error
DbAnnotateSelectedNo404(s) ==
    /\ At(s, "annotate", "select") /\ impl = "db"
    /\ \E ok \in BOOLEAN :
        conn' = [conn EXCEPT ![s] =
                    IF ~ok \/ ~RowFound(images, conn[s].id)
                    THEN Respond(conn[s], 500, Msg("Failed to annotate image"))
                    ELSE [conn[s] EXCEPT !.pc = "meta",
                                   !.original = [originalName |-> images[conn[s].id.n].original_name,
                                                 data |-> images[conn[s].id.n].data]]]
    /\ UNCHANGED <<impl, r, images, autoInc, files, issued>>

\* await pool.execute(SELECT original_name, data FROM images WHERE id = ?)
DbAnnotateSelected(s) ==
    /\ At(s, "annotate", "select") /\ impl = "db"
    /\ \E ok \in BOOLEAN :
        conn' = [conn EXCEPT ![s] =
                    IF ~ok THEN Respond(conn[s], 500, Msg("Failed to annotate image"))
                    ELSE IF ~RowFound(images, conn[s].id) THEN Respond(conn[s], 404, Msg("Image not found"))
                    ELSE [conn[s] EXCEPT !.pc = "meta",
                                   !.original = [originalName |-> images[conn[s].id.n].original_name,
                                                 data |-> images[conn[s].id.n].data]]]
    /\ UNCHANGED <<impl, r, images, autoInc, files, issued>>

\* await baseImage.metadata(), then the overlay is built and the composite
\* is started
DbAnnotateMeta(s) ==
    /\ At(s, "annotate", "meta") /\ impl = "db"
    /\ \E ok \in BOOLEAN, m \in PipelineMetas :
        LET o == BuildOverlay("db", conn[s].body, m) IN
        conn' = [conn EXCEPT ![s] =
                    IF ok /\ Decodable(conn[s].original.data) /\ o.ok
                    THEN [conn[s] EXCEPT !.pc = "composite", !.svg = o.svg]
                    ELSE Respond(conn[s], 500, Msg("Failed to annotate image"))]
    /\ UNCHANGED <<impl, r, images, autoInc, files, issued>>

\* await sharp(original.data).composite(...).png().toBuffer()
DbAnnotateComposited(s) ==
    /\ At(s, "annotate", "composite") /\ impl = "db"
    /\ \E ok \in BOOLEAN :
        conn' = [conn EXCEPT ![s] =
                    IF ok /\ Decodable(conn[s].original.data)
                    THEN [conn[s] EXCEPT !.pc = "insert", !.buf = Composite(conn[s].original.data, conn[s].svg)]
                    ELSE Respond(conn[s], 500, Msg("Failed to annotate image"))]
    /\ UNCHANGED <<impl, r, images, autoInc, files, issued>>

\* Faulty variant: the new row is inserted without its parent link
AnnotatedRowNoParent(c) ==
    [content_type |-> PngType, original_name |-> OrElse(c.original.originalName, Null),
     data |-> c.buf, original_image_id |-> Null]

\* the row the annotate handler inserts
AnnotatedRow(c) ==
    Row(PngType, OrElse(c.original.originalName, Null), c.buf, Num(c.id.n))

\* Faulty variant: the row is inserted, then the handler fails before it answers
DbAnnotateInsertedThenThrows(s) ==
    /\ At(s, "annotate", "insert") /\ impl = "db"
    /\ \E ok \in BOOLEAN :
        /\ images' = InsertRow(images, autoInc, AnnotatedRow(conn[s]))
        /\ autoInc' = autoInc + 1
        /\ conn' = [conn EXCEPT ![s] =
                       IF ok
                       THEN Respond(conn[s], 201, [id |-> autoInc, url |-> RawUrl(autoInc),
                                                   originalImageId |-> conn[s].id.n])
                       ELSE Respond(conn[s], 500, Msg("Failed to annotate image"))]
    /\ UNCHANGED <<impl, r, files, issued>>

\* await pool.execute(INSERT ...), then the 201
DbAnnotateInserted(s) ==
    /\ At(s, "annotate", "insert") /\ impl = "db"
    /\ \E ok \in BOOLEAN :
        IF ok
        THEN /\ images' = InsertRow(images, autoInc, AnnotatedRow(conn[s]))
             /\ autoInc' = autoInc + 1
             /\ conn' = [conn EXCEPT ![s] =
                            Respond(conn[s], 201, [id |-> autoInc, url |-> RawUrl(autoInc),
                                             originalImageId |-> conn[s].id.n])]
        ELSE /\ conn' = [conn EXCEPT ![s] = Respond(conn[s], 500, Msg("Failed to annotate image"))]
             /\ UNCHANGED <<images, autoInc>>
    /\ UNCHANGED <<impl, r, files, issued>>

---------------------------------------------------------------------------
(* fs: file names are sequences of tokens, the last one the extension.     *)

Exts == {".png", ".jpg"}

\* path.extname(name): the extension, or "" when there is none
ExtName(name) ==
    IF Len(name) > 1 /\ name[Len(name)] \in Exts THEN name[Len(name)] ELSE ""

\* path.basename(name, ext): name without the extension ext it ends with
BaseName(name, ext) ==
    IF Len(name) > 1 /\ name[Len(name)] = ext THEN SubSeq(name, 1, Len(name) - 1) ELSE name

\* name.replace(/\.[^.]+$/, "")
StripExt(name) ==
    IF name # <<>> /\ name[Len(name)] \in Exts THEN SubSeq(name, 1, Len(name) - 1) ELSE name

\* multer's filename callback: `${timestamp}-${safeBase}${ext}`
DiskName(originalname) ==
    LET ext == IF ExtName(originalname) = "" THEN ".png" ELSE ExtName(originalname)
    IN  <<"1700-">> \o BaseName(originalname, ext) \o <<ext>>

\* req.file.filename.replace(/\.[^.]+$/, "") + ".png"
PngName(filename) == StripExt(filename) \o <<".png">>

\* `${baseName}-annotated.png`
AnnotatedName(id) == BaseName(id, ExtName(id)) \o <<"-annotated", ".png">>

\* the directory after a file is written (created or overwritten)
WriteFile(dir, name, buf) ==
    [k \in DOMAIN dir \cup {name} |-> IF k = name THEN buf ELSE dir[k]]

\* fs.unlinkSync(name)
Unlink(dir, name) == [k \in DOMAIN dir \ {name} |-> dir[k]]

\* the :id parameters of the fs annotate requests: a stored name, or one
\* that is not there
FsIds == DOMAIN files \cup {<<"nope", ".png">>}

---------------------------------------------------------------------------
(* fs: POST /images                                                        *)

\* multer has stored the upload under its disk name when the handler runs
FsUploadArrive(s) ==
    /\ impl = "fs" /\ CanReceive(s)
    /\ \E f \in UploadFiles :
        IF f = NoFile
        THEN /\ conn' = [conn EXCEPT ![s] =
                            Respond(NewReq("upload", <<>>, f, Undefined), 400,
                                    Msg("No file uploaded"))]
             /\ UNCHANGED files
        ELSE /\ files' = WriteFile(files, DiskName(f.name), f.buf)
             /\ conn' = [conn EXCEPT ![s] =
                            [NewReq("upload", DiskName(f.name), f, Undefined)
                                EXCEPT !.pc = "tofile"]]
    /\ issued' = issued + 1
    /\ UNCHANGED <<impl, r, images, autoInc>>

\* await sharp(originalPath).png().toFile(pngPath), the unlink, the 201
FsUploadSaved(s) ==
    /\ At(s, "upload", "tofile") /\ impl = "fs"
    /\ LET orig == conn[s].idStr
           png == PngName(orig)
       IN  \E ok \in BOOLEAN :
            IF ok /\ orig \in DOMAIN files /\ Decodable(files[orig])
            THEN /\ files' = LET w == WriteFile(files, png, PngEncode(files[orig]))
                             IN  IF orig # png THEN Unlink(w, orig) ELSE w
                 /\ conn' = [conn EXCEPT ![s] =
                                Respond(conn[s], 201, [id |-> png, url |-> FsRawUrl(png)])]
            ELSE /\ conn' = [conn EXCEPT ![s] =
                                Respond(conn[s], 500, Msg("Failed to upload image"))]
                 /\ UNCHANGED files
    /\ UNCHANGED <<impl, r, images, autoInc, issued>>

---------------------------------------------------------------------------
(* fs: POST /images/:id/annotate                                           *)

FsAnnotateArrive(s) ==
    /\ impl = "fs" /\ CanReceive(s)
    /\ \E id \in FsIds, b \in PipelineBodies :
        LET c == NewReq("annotate", id, NoFile, b) IN
        conn' = [conn EXCEPT ![s] =
                    IF id \notin DOMAIN files THEN Respond(c, 404, Msg("Image not found"))
                    ELSE [c EXCEPT !.pc = "meta"]]
    /\ issued' = issued + 1
    /\ UNCHANGED <<impl, r, images, autoInc, files>>

\* await image.metadata(), then the overlay is built and toFile is started
FsAnnotateMeta(s) ==
    /\ At(s, "annotate", "meta") /\ impl = "fs"
    /\ \E ok \in BOOLEAN, m \in PipelineMetas :
        LET o == BuildOverlay("fs", conn[s].body, m)
            id == conn[s].idStr
        IN  conn' = [conn EXCEPT ![s] =
                        IF ok /\ id \in DOMAIN files /\ Decodable(files[id]) /\ o.ok
                        THEN [conn[s] EXCEPT !.pc = "tofile", !.svg = o.svg]
                        ELSE Respond(conn[s], 500, Msg("Failed to annotate image"))]
    /\ UNCHANGED <<impl, r, images, autoInc, files, issued>>

\* await annotated.toFile(outPath), then the 201
FsAnnotateSaved(s) ==
    /\ At(s, "annotate", "tofile") /\ impl = "fs"
    /\ LET id == conn[s].idStr
           newId == AnnotatedName(id)
       IN  \E ok \in BOOLEAN :
            IF ok /\ id \in DOMAIN files /\ Decodable(files[id])
            THEN /\ files' = WriteFile(files, newId, Composite(files[id], conn[s].svg))
                 /\ conn' = [conn EXCEPT ![s] =
                                Respond(conn[s], 201, [id |-> newId, url |-> FsRawUrl(newId)])]
            ELSE /\ conn' = [conn EXCEPT ![s] =
                                Respond(conn[s], 500, Msg("Failed to annotate image"))]
                 /\ UNCHANGED files
    /\ UNCHANGED <<impl, r, images, autoInc, issued>>

\* the response is on the wire; the slot serves the next request
Release(s) ==
    /\ conn[s] # Idle /\ conn[s].pc = "done"
    /\ conn' = [conn EXCEPT ![s] = Idle]
    /\ UNCHANGED <<impl, r, images, autoInc, files, issued>>

Next ==
    \E s \in Slots :
        \/ DbUploadArrive(s) \/ DbUploadEncoded(s) \/ DbUploadInserted(s)
        \/ DbReplaceArrive(s) \/ DbReplaceSelected(s) \/ DbReplaceEncoded(s)
        \/ DbReplaceUpdated(s)
        \/ DbAnnotateArrive(s) \/ DbAnnotateSelected(s) \/ DbAnnotateMeta(s)
        \/ DbAnnotateComposited(s) \/ DbAnnotateInserted(s)
        \/ FsUploadArrive(s) \/ FsUploadSaved(s)
        \/ FsAnnotateArrive(s) \/ FsAnnotateMeta(s) \/ FsAnnotateSaved(s)
        \/ Release(s)

Spec == Init /\ [][Next]_vars

---------------------------------------------------------------------------
(* Properties of the overlay construction (RenderSpec).                    *)

\* the strokes / texts of the request: the entries of the body's arrays
ReqStrokes == IF Get(r.body, "strokes").t = "array" THEN Get(r.body, "strokes").a ELSE <<>>
ReqTexts == IF Get(r.body, "texts").t = "array" THEN Get(r.body, "texts").a ELSE <<>>

\* a stroke with at least 2 points
HasTwoPoints(s) ==
    /\ s.t = "object"
    /\ "points" \in DOMAIN s.f
    /\ s.f.points.t = "array"
    /\ Len(s.f.points.a) >= 2

\* a text label with non-empty text
HasText(t) ==
    /\ t.t = "object"
    /\ "text" \in DOMAIN t.f
    /\ t.f.text.t = "string"
    /\ t.f.text.s # <<>>

CountTag(svg, tag) == Cardinality({k \in 1..Len(svg) : svg[k].tag = tag})

CountSeq(s, P(_)) == Cardinality({k \in 1..Len(s) : P(s[k])})

\* C5: a rendered overlay holds exactly one path element per stroke with at
\* least 2 points and one text element per text with non-empty text,
\* whatever invalid entries stand between them.
C5_ElementCounts ==
    r.pc = "done" =>
        /\ CountTag(r.svg, "path") = CountSeq(ReqStrokes, HasTwoPoints)
        /\ CountTag(r.svg, "text") = CountSeq(ReqTexts, HasText)

\* C5 witness: an overlay was rendered from a request whose valid stroke and
\* valid text each stand after an invalid one.
C5_Witness ==
    /\ r.pc = "done"
    /\ Len(ReqStrokes) = 2 /\ ~HasTwoPoints(ReqStrokes[1]) /\ HasTwoPoints(ReqStrokes[2])
    /\ Len(ReqTexts) = 2 /\ ~HasText(ReqTexts[1]) /\ HasText(ReqTexts[2])
    /\ CountTag(r.svg, "path") = 1
    /\ CountTag(r.svg, "text") = 1

\* C6: the rendered document is the opening tag, then the elements of the
\* valid strokes in request order, then the elements of the valid texts in
\* request order, then the closing tag.
C6_ZOrder ==
    r.pc = "done" =>
        LET vs == SelectSeq(ReqStrokes, HasTwoPoints)
            vt == SelectSeq(ReqTexts, HasText)
            n == Len(r.svg)
        IN  /\ n = Len(vs) + Len(vt) + 2
            /\ r.svg[1].tag = "svg"
            /\ r.svg[n] = SvgClose
            /\ \A k \in 1..Len(vs) : r.svg[1 + k] = PathElement(vs[k])
            /\ \A k \in 1..Len(vt) : r.svg[1 + Len(vs) + k] = TextElement(vt[k])

\* C6 witness: strokes [A, B] and texts [T] rendered as A, B, T between the
\* svg tags.
C6_Witness ==
    /\ r.pc = "done"
    /\ ReqStrokes = <<StrokePlain, StrokeStyled>>
    /\ ReqTexts = <<TextPlain>>
    /\ Len(r.svg) = 5
    /\ r.svg[2] = PathElement(StrokePlain)
    /\ r.svg[3] = PathElement(StrokeStyled)
    /\ r.svg[4] = TextElement(TextPlain)
    /\ r.svg[2] # r.svg[3]

\* C7 (as claimed): the overlay construction never throws, whatever the
\* shape of strokes and texts.
C7_RendererNeverThrows == r.pc # "threw"

Available(v) == v.t = "number" /\ v.n > 0

\* C9 (as claimed): when the width, the height or both are unavailable the
\* canvas is exactly 1024 x 768; when both are available it equals them.
C9_FallbackWhenAnyMissing ==
    r.pc \notin {"off", "start"} =>
        IF Available(r.meta.width) /\ Available(r.meta.height)
        THEN r.canvas = <<r.meta.width, r.meta.height>>
        ELSE r.canvas = <<Num(DefaultWidth), Num(DefaultHeight)>>

\* C9 (amended): each dimension falls back on its own: the canvas width is
\* the metadata's width, or 1024 when that is unavailable; the canvas height
\* is the metadata's height, or 768 when that is unavailable (so 1024 x 768
\* when both are unavailable); the opening tag carries exactly these; and a
\* construction that throws also throws with complete metadata.
C9_FallbackPerDimension ==
    r.pc \notin {"off", "start"} =>
        /\ r.canvas[1] = IF Available(r.meta.width) THEN r.meta.width ELSE Num(1024)
        /\ r.canvas[2] = IF Available(r.meta.height) THEN r.meta.height ELSE Num(768)
        /\ r.svg[1].width = NumToStr(r.canvas[1].n)
        /\ r.svg[1].height = NumToStr(r.canvas[2].n)
        /\ r.svg[1].viewBox = <<"0", "0">> \o NumToStr(r.canvas[1].n) \o NumToStr(r.canvas[2].n)
        /\ r.pc = "threw" =>
              ~BuildOverlay(impl, r.body, [width |-> Num(100), height |-> Num(50)]).ok

\* C9 witness: an overlay rendered with no dimension available, on a
\* 1024 x 768 canvas.
C9_Witness ==
    /\ r.pc = "done"
    /\ r.meta = [width |-> Undefined, height |-> Undefined]
    /\ r.svg[1].width = <<"1", "0", "2", "4">>
    /\ r.svg[1].height = <<"7", "6", "8">>

---------------------------------------------------------------------------
(* Properties of the request pipeline (Spec).                              *)

Active(c) == c # Idle

Finished(c) == Active(c) /\ c.pc = "done"

Status(c) == c.resp[Len(c.resp)].status

ReplyBody(c) == c.resp[Len(c.resp)].body

\* slot s runs a segment of an op handler in this step (its arrival or one
\* of its continuations)
Runs(s, op) == conn'[s] # conn[s] /\ Active(conn'[s]) /\ conn'[s].op = op

\* ... and the segment answers with status
Answers(s, op, status) ==
    Runs(s, op) /\ conn'[s].pc = "done" /\ Status(conn'[s]) = status

StoreUnchanged == images' = images /\ autoInc' = autoInc /\ files' = files

\* C1: every segment of an Annotate call other than the one that answers 201
\* leaves the store (rows, their fields, files) exactly as it was: a call
\* that ends in an error has written nothing.
C1_AnnotateAtomicOnFailure ==
    [][\A s \in Slots :
        Runs(s, "annotate") /\ ~Answers(s, "annotate", 201) => StoreUnchanged]_vars

\* C1 witness: an Annotate whose source exists has failed (500) and the
\* table holds the source row alone.
C1_Witness ==
    \E s \in Slots :
        /\ impl = "db"
        /\ Finished(conn[s]) /\ conn[s].op = "annotate" /\ Status(conn[s]) = 500
        /\ conn[s].id = NumberOf(<<"1">>)
        /\ DOMAIN images = {1}
        /\ autoInc = 2

\* the source of the Annotate in slot s, as the store names it
SourceKey(c) == IF impl = "db" THEN NumberOf(c.idStr).n ELSE c.idStr

NewId(c) == ReplyBody(c).id

BothAnnotatedSameSource(s, t) ==
    /\ s # t
    /\ Finished(conn[s]) /\ conn[s].op = "annotate" /\ Status(conn[s]) = 201
    /\ Finished(conn[t]) /\ conn[t].op = "annotate" /\ Status(conn[t]) = 201
    /\ SourceKey(conn[s]) = SourceKey(conn[t])

\* C3 (as claimed): two Annotate calls on the same source that overlap in
\* any way each end with a record of their own: the two ids differ.
C3_ConcurrentAnnotateDistinct ==
    \A s, t \in Slots : BothAnnotatedSameSource(s, t) => NewId(conn[s]) # NewId(conn[t])

\* C3 restricted to the db service: the ids differ, both rows exist and both
\* name the source as their parent.
C3_DbConcurrentAnnotateDistinct ==
    \A s, t \in Slots :
        impl = "db" /\ BothAnnotatedSameSource(s, t) =>
            /\ NewId(conn[s]) # NewId(conn[t])
            /\ {NewId(conn[s]), NewId(conn[t])} \subseteq DOMAIN images
            /\ images[NewId(conn[s])].original_image_id = Num(SourceKey(conn[s]))
            /\ images[NewId(conn[t])].original_image_id = Num(SourceKey(conn[s]))

C3_DbWitness ==
    \E s, t \in Slots : impl = "db" /\ BothAnnotatedSameSource(s, t)

\* C4: no segment of a Replace adds a row or changes a parent link; the
\* segment that answers 200 answers the id asked for, leaves that row with
\* the re-encoded bytes of the file, every other row as it was, and changes
\* nothing at all when the row already holds what this Replace writes (the
\* same Replace applied before).
C4_ReplaceKeepsIdentity ==
    [][\A s \in Slots :
        /\ Runs(s, "replace") =>
              /\ DOMAIN images' = DOMAIN images
              /\ autoInc' = autoInc
              /\ \A k \in DOMAIN images :
                    images'[k].original_image_id = images[k].original_image_id
        /\ Answers(s, "replace", 200) =>
              LET id == NumberOf(conn[s].idStr).n
                  f == conn[s].file
              IN  /\ ReplyBody(conn'[s]).id = id
                  /\ id \in DOMAIN images
                  /\ images'[id].data.pix = f.buf.pix
                  /\ images'[id].data.fmt = "png"
                  /\ images'[id].content_type = PngType
                  /\ \A k \in DOMAIN images \ {id} : images'[k] = images[k]
                  /\ (images[id].data.pix = f.buf.pix /\ images[id].data.layers = f.buf.layers
                      /\ images[id].data.by = "sharp"
                      /\ images[id].original_name = OrElse(Str(f.name), Str(<<"edited.png">>)))
                        => images' = images]_vars

\* C4 witness: image 1 was uploaded, a Replace of it with file B has
\* answered 200 and the row holds what that Replace wrote; a second Replace
\* of image 1 with the same file B is about to run its UPDATE.
C4_Witness ==
    /\ impl = "db"
    /\ issued = 3
    /\ DOMAIN images = {1}
    /\ images[1] = Row(PngType, Str(<<"edited.png">>), PngEncode(FileB.buf), Null)
    /\ \E s, t \in Slots :
          /\ Finished(conn[s]) /\ conn[s].op = "replace" /\ Status(conn[s]) = 200
          /\ conn[s].idStr = <<"1">>
          /\ Active(conn[t]) /\ conn[t].op = "replace" /\ conn[t].pc = "update"
          /\ conn[t].idStr = <<"1">>
          /\ conn[t].file = FileB

\* C8: an Annotate segment either answers nothing yet, or answers once with
\* 400 (exactly when the id does not convert to a finite number), 404 with
\* "Image not found" (only when no row has the id), 500, or 201 with
\* {id, url, originalImageId}; it inserts a row exactly when it answers 201;
\* and a request that was answered is not answered again.
C8_AnnotateResponses ==
    [][impl = "db" =>
        \A s \in Slots :
          /\ Runs(s, "annotate") =>
                LET c == conn'[s]
                    id == NumberOf(c.idStr)
                IN  /\ c.pc # "done" => c.resp = <<>>
                    /\ c.pc = "done" =>
                          /\ Len(c.resp) = 1
                          /\ Status(c) \in {400, 404, 500, 201}
                          /\ Status(c) = 400 <=> id.kind \notin {"int", "frac"}
                          /\ Status(c) = 404 =>
                                /\ ReplyBody(c) = Msg("Image not found")
                                /\ ~(id.kind = "int" /\ id.n \in DOMAIN images)
                          /\ (conn[s] # Idle /\ conn[s].pc = "select"
                              /\ ~(id.kind = "int" /\ id.n \in DOMAIN images))
                                => Status(c) \in {404, 500}
                          /\ Status(c) = 201 =>
                                /\ ReplyBody(c) = [id |-> autoInc, url |-> RawUrl(autoInc),
                                                   originalImageId |-> id.n]
                                /\ DOMAIN images' = DOMAIN images \cup {autoInc}
                                /\ autoInc \notin DOMAIN images
                    /\ (images' # images) <=> (c.pc = "done" /\ Status(c) = 201)
          /\ (Finished(conn[s]) /\ conn[s].op = "annotate") =>
                conn'[s] = conn[s] \/ conn'[s] = Idle]_vars

\* C8 witness: Annotate requests were answered 404 "Image not found" and
\* 400, and one was answered 201 with the new row's id.
C8_Witness ==
    /\ impl = "db"
    /\ \E s, t \in Slots :
          /\ Finished(conn[s]) /\ conn[s].op = "annotate" /\ Status(conn[s]) = 201
          /\ ReplyBody(conn[s]).id \in DOMAIN images
          /\ Finished(conn[t]) /\ conn[t].op = "annotate"
          /\ Status(conn[t]) = 404 /\ ReplyBody(conn[t]) = Msg("Image not found")
          /\ conn[t].idStr = <<"1", ".", "5">>

\* C10: every row of the table has content type image/png and holds bytes
\* that are the output of sharp's png encoder.
C10_RowsCanonical ==
    impl = "db" =>
        \A k \in DOMAIN images :
            /\ images[k].content_type = <<"image/png">>
            /\ images[k].data.fmt = "png"
            /\ images[k].data.by = "sharp"

\* C10 witness: after an upload, an annotate and a replace, the table holds
\* the replaced row and the row derived from it.
C10_Witness ==
    /\ impl = "db"
    /\ DOMAIN images = {1, 2}
    /\ images[1].data.pix = "B"
    /\ images[2].data.pix = "A"
    /\ images[2].original_image_id = Num(1)
    /\ \E s \in Slots : Finished(conn[s]) /\ Status(conn[s]) = 200

=============================================================================
